---------------------------- MODULE Spec2Model ----------------------------
(***************************************************************************)
(* Model of the blacklist maintenance scripts:                             *)
(*   scripts/merge_blacklist.py     reader, normaliser, merger, writer     *)
(*   scripts/validate_blacklist.py  validator                              *)
(*                                                                         *)
(* A Python str is a sequence of one-character strings, so that strip,     *)
(* lower, split, startswith, isdigit, int and the two regular expressions  *)
(* are computed character by character.  The alphabet is printable ASCII;  *)
(* the only whitespace character in it is the space.  A file is the        *)
(* sequence of its lines as str.splitlines() returns them (a text whose    *)
(* last line is newline-terminated) with a flag telling whether the path   *)
(* exists.                                                                 *)
(***************************************************************************)
EXTENDS Integers, Sequences, FiniteSets, TLC

VARIABLES
    target,     \* the --target file (blacklist.txt): exists flag and lines
    now,        \* the UTC clock that build_contents reads, in minutes
    runs,       \* number of tool invocations so far
    written,    \* the source files of the runs that wrote the target so far
    last,       \* what merge_blacklist.main() read and produced, when the
                \* latest invocation was one (else NoRun)
    checked,    \* what validate_blacklist.main() read and reported, when the
                \* latest invocation was one (else NoCheck)
    m_old,      \* merge_entries call: argument old
    m_new,      \* merge_entries call: argument new
    m_pc,       \* merge_entries call: "call" before, "return" after
    m_out       \* merge_entries call: outcome

vars == <<target, now, runs, written, last, checked, m_old, m_new, m_pc, m_out>>

(***************************************************************************)
(* Characters and the str methods the scripts use.                         *)
(***************************************************************************)

\* Printable ASCII, code points 32..126 (the quotes, the backtick and the
\* backslash are named, not spelled; no modelled text uses them).
Ascii ==
    << " ", "!", "DQUOTE", "#", "$", "%", "&", "QUOTE", "(", ")", "*", "+", ",", "-", ".", "/",
       "0", "1", "2", "3", "4", "5", "6", "7", "8", "9", ":", ";", "<", "=", ">", "?",
       "@", "A", "B", "C", "D", "E", "F", "G", "H", "I", "J", "K", "L", "M", "N", "O",
       "P", "Q", "R", "S", "T", "U", "V", "W", "X", "Y", "Z", "[", "BACKSLASH", "]", "^", "_",
       "BACKTICK", "a", "b", "c", "d", "e", "f", "g", "h", "i", "j", "k", "l", "m", "n", "o",
       "p", "q", "r", "s", "t", "u", "v", "w", "x", "y", "z", "{", "|", "}", "~" >>

Ord(c) == 31 + (CHOOSE i \in 1..Len(Ascii) : Ascii[i] = c)

Chr(n) == Ascii[n - 31]

Digits == {"0", "1", "2", "3", "4", "5", "6", "7", "8", "9"}

UpperCase == {Ascii[i] : i \in 34..59}

LowerCase == {Ascii[i] : i \in 66..91}

\* str.isspace for one character
isspace(c) == c = " "

\* str.lower
lower(s) == [i \in 1..Len(s) |-> IF s[i] \in UpperCase THEN Chr(Ord(s[i]) + 32) ELSE s[i]]

RECURSIVE lstrip(_)
\* str.lstrip()
lstrip(s) == IF s # <<>> /\ isspace(Head(s)) THEN lstrip(Tail(s)) ELSE s

RECURSIVE rstrip(_)
\* str.rstrip()
rstrip(s) ==
    IF s # <<>> /\ isspace(s[Len(s)]) THEN rstrip(SubSeq(s, 1, Len(s) - 1)) ELSE s

\* str.strip()
strip(s) == lstrip(rstrip(s))

RECURSIVE lstrip_chars(_, _)
\* str.lstrip(chars): drops EVERY leading character that is in chars
lstrip_chars(s, chars) ==
    IF s # <<>> /\ Head(s) \in chars THEN lstrip_chars(Tail(s), chars) ELSE s

\* str.startswith
startswith(s, prefix) ==
    Len(s) >= Len(prefix) /\ SubSeq(s, 1, Len(prefix)) = prefix

\* str.isdigit: non-empty and every character a digit
isdigit(s) == s # <<>> /\ \A i \in 1..Len(s) : s[i] \in Digits

\* index of the first occurrence of character c in s, 0 when there is none
find(s, c) ==
    IF \E i \in 1..Len(s) : s[i] = c
    THEN CHOOSE i \in 1..Len(s) : s[i] = c /\ \A j \in 1..(i - 1) : s[j] # c
    ELSE 0

\* s.split(c, 1): <<s>> when c does not occur, else <<before, after>>
split1(s, c) ==
    IF find(s, c) = 0 THEN <<s>>
    ELSE <<SubSeq(s, 1, find(s, c) - 1), SubSeq(s, find(s, c) + 1, Len(s))>>

RECURSIVE digits_value(_)
digits_value(s) ==
    IF s = <<>> THEN 0
    ELSE 10 * digits_value(SubSeq(s, 1, Len(s) - 1)) + (Ord(s[Len(s)]) - 48)

\* int(x) on a str: one optional sign, then digits; anything else raises
\* ValueError (raised = TRUE).  (Python also accepts surrounding whitespace
\* and '_' between digits; sort_key calls int only on '-'s followed by digits.)
int(x) ==
    LET signed == x # <<>> /\ x[1] \in {"-", "+"}
        body == IF signed THEN Tail(x) ELSE x
    IN  IF ~isdigit(body) THEN [raised |-> TRUE, value |-> 0]
        ELSE [raised |-> FALSE,
              value |-> IF signed /\ x[1] = "-" THEN 0 - digits_value(body)
                        ELSE digits_value(body)]

\* Python's < on str: lexicographic by code point
str_lt(a, b) ==
    \E i \in 1..(Len(b)) :
        /\ \A j \in 1..(i - 1) : j <= Len(a) /\ a[j] = b[j]
        /\ \/ i = Len(a) + 1
           \/ i <= Len(a) /\ Ord(a[i]) < Ord(b[i])

\* A path that does not exist, and a file with the given lines
NoFile == [exists |-> FALSE, lines |-> <<>>]

File(lines) == [exists |-> TRUE, lines |-> lines]

(***************************************************************************)
(* scripts/merge_blacklist.py                                              *)
(***************************************************************************)

\* An entry is the tuple <<main, comment>>.

split_main_and_comment(line) ==
    IF find(line, "#") # 0
    THEN <<strip(split1(line, "#")[1]), strip(split1(line, "#")[2])>>
    ELSE <<strip(line), <<>>>>

\* Variant of read_step that tests the line without consulting header_done.
read_step_header_resumes(st, raw) ==
    LET s == rstrip(raw)
        mc == split_main_and_comment(s)
    IN  IF s = <<>> \/ startswith(s, <<"#">>)
        THEN [st EXCEPT !.header = Append(@, s)]
        ELSE IF mc[1] = <<>>
             THEN [st EXCEPT !.header_done = TRUE]
             ELSE [st EXCEPT !.header_done = TRUE, !.entries = Append(@, mc)]

\* One iteration of the loop of read_file on the line raw; st is the record
\* of the loop's locals header, entries and header_done.
read_step(st, raw) ==
    LET s == rstrip(raw)
        mc == split_main_and_comment(s)
    IN  IF ~st.header_done /\ (s = <<>> \/ startswith(s, <<"#">>))
        THEN [st EXCEPT !.header = Append(@, s)]
        ELSE IF mc[1] = <<>>
             THEN [st EXCEPT !.header_done = TRUE]
             ELSE [st EXCEPT !.header_done = TRUE, !.entries = Append(@, mc)]

RECURSIVE read_loop(_, _)
\* The locals of read_file after its loop has consumed the first k lines.
read_loop(lines, k) ==
    IF k = 0 THEN [header |-> <<>>, entries |-> <<>>, header_done |-> FALSE]
    ELSE read_step(read_loop(lines, k - 1), lines[k])

\* read_file(path): (header, entries), ([], []) when the path does not exist
read_file(file) ==
    IF ~file.exists THEN [header |-> <<>>, entries |-> <<>>]
    ELSE [header |-> read_loop(file.lines, Len(file.lines)).header,
          entries |-> read_loop(file.lines, Len(file.lines)).entries]

\* Variant of normalize_entry without the lowercasing of usernames.
normalize_entry_keep_case(entry) == strip(entry)

normalize_entry(entry) ==
    IF startswith(entry, <<"@">>) THEN lower(strip(entry)) ELSE strip(entry)

RECURSIVE dedup_forgets_seen(_, _, _)
\* Variant of dedup without the test `norm in seen'.
dedup_forgets_seen(items, seen, merged) ==
    IF items = <<>> THEN merged
    ELSE dedup_forgets_seen(Tail(items), seen,
             Append(merged, <<normalize_entry(Head(items)[1]), Head(items)[2]>>))

RECURSIVE dedup(_, _, _)
\* The loop of merge_entries over old + new, with its locals seen and merged.
dedup(items, seen, merged) ==
    IF items = <<>> THEN merged
    ELSE LET norm == normalize_entry(Head(items)[1])
         IN  IF norm \in seen THEN dedup(Tail(items), seen, merged)
             ELSE dedup(Tail(items), seen \cup {norm},
                        Append(merged, <<normalize_entry(Head(items)[1]), Head(items)[2]>>))

\* sort_key(item): the tuple (0, int(x)) or (1, x.lower()); raised = TRUE when
\* int(x) raises ValueError.
sort_key(item) ==
    LET x == item[1]
    IN  IF isdigit(lstrip_chars(x, {"-"}))
        THEN [raised |-> int(x).raised, tag |-> 0, num |-> int(x).value, text |-> <<>>]
        ELSE [raised |-> FALSE, tag |-> 1, num |-> 0, text |-> lower(x)]

\* Python's < on the tuples sort_key returns
key_lt(a, b) ==
    \/ a.tag < b.tag
    \/ a.tag = b.tag /\ a.tag = 0 /\ a.num < b.num
    \/ a.tag = b.tag /\ a.tag = 1 /\ str_lt(a.text, b.text)

\* Variant of sorted that leaves the list in insertion order.
sorted_unsorted(items) == items

RECURSIVE sorted(_)
\* sorted(items, key=sort_key): stable, so an item goes after every earlier
\* item whose key is not greater than its own.
sorted(items) ==
    IF items = <<>> THEN <<>>
    ELSE LET front == sorted(SubSeq(items, 1, Len(items) - 1))
             x == items[Len(items)]
             after == {i \in 1..Len(front) : key_lt(sort_key(x), sort_key(front[i]))}
             pos == IF after = {} THEN Len(front) + 1
                    ELSE CHOOSE i \in after : \A j \in after : i <= j
         IN  SubSeq(front, 1, pos - 1) \o <<x>> \o SubSeq(front, pos, Len(front))

\* merge_entries(old, new): the sorted list, or raised = TRUE when sorted()
\* propagates the ValueError of a sort_key call (every item's key is computed).
merge_entries(old, new) ==
    LET merged == dedup(old \o new, {}, <<>>)
    IN  IF \E i \in 1..Len(merged) : sort_key(merged[i]).raised
        THEN [raised |-> TRUE, value |-> <<>>]
        ELSE [raised |-> FALSE, value |-> sorted(merged)]

RECURSIVE decimal(_)
\* str(n) for n >= 0
decimal(n) == IF n < 10 THEN <<Chr(48 + n)>> ELSE decimal(n \div 10) \o <<Chr(48 + (n % 10))>>

\* datetime.now(timezone.utc).strftime(...): the text of the clock reading t,
\* one text per minute
strftime(t) == decimal(t) \o <<" ", "U", "T", "C">>

MARKER == <<"#", " ", "M", "e", "r", "g", "e", "d", " ", "o", "n", " ">>

\* Variant of render_entry that writes the value alone.
render_entry_no_comment(item) == item[1]

render_entry(item) ==
    IF item[2] # <<>> THEN item[1] \o <<" ", " ", "#", " ">> \o item[2] ELSE item[1]

\* "\n\n".join(parts) + "\n" as lines, each part being a non-empty list of lines
join_parts(parts) ==
    IF parts = <<>> THEN << <<>> >>
    ELSE IF Len(parts) = 1 THEN parts[1]
    ELSE parts[1] \o << <<>> >> \o parts[2]

\* Variant of build_contents without the filter on the old header.
build_contents_keep_markers(header, entries, t) ==
    LET header_out == header \o <<MARKER \o strftime(t)>>
        body == [i \in 1..Len(entries) |-> render_entry(entries[i])]
    IN  join_parts((IF header_out # <<>> THEN <<header_out>> ELSE <<>>)
                   \o (IF body # <<>> /\ body # << <<>> >> THEN <<body>> ELSE <<>>))

\* build_contents(header, entries) at clock reading t: the lines of the text.
\* body is the list of rendered lines; the str body is empty (`if body' fails)
\* when there is no line, or a single empty one.
build_contents(header, entries, t) ==
    LET gen_line == MARKER \o strftime(t)
        header_filtered == SelectSeq(header, LAMBDA h : ~startswith(h, MARKER))
        header_out == header_filtered \o <<gen_line>>
        body == [i \in 1..Len(entries) |-> render_entry(entries[i])]
    IN  join_parts((IF header_out # <<>> THEN <<header_out>> ELSE <<>>)
                   \o (IF body # <<>> /\ body # << <<>> >> THEN <<body>> ELSE <<>>))

(***************************************************************************)
(* scripts/validate_blacklist.py                                           *)
(***************************************************************************)

UsernameMin == 5

UsernameMax == 32

WordChars == UpperCase \cup LowerCase \cup Digits \cup {"_"}

\* USERNAME_RE.match(s): ^@[A-Za-z0-9_]{5,32}$
USERNAME_RE(s) ==
    /\ s # <<>>
    /\ s[1] = "@"
    /\ Len(s) - 1 >= UsernameMin
    /\ Len(s) - 1 <= UsernameMax
    /\ \A i \in 2..Len(s) : s[i] \in WordChars

\* ID_RE.match(s): ^-?\d+$
ID_RE(s) ==
    IF s # <<>> /\ s[1] = "-" THEN isdigit(Tail(s)) ELSE isdigit(s)

\* Variant of validate_step whose key is the main part as spelled.
validate_step_case_sensitive(st, i, raw) ==
    LET line == strip(raw)
        main_part == strip(split1(line, "#")[1])
    IN  IF line = <<>> \/ startswith(line, <<"#">>) THEN st
        ELSE IF main_part = <<>> THEN st
        ELSE IF main_part \in st.seen
        THEN [st EXCEPT !.errors = Append(@, <<i, line, "duplicate">>)]
        ELSE IF USERNAME_RE(main_part) \/ ID_RE(main_part)
        THEN [st EXCEPT !.seen = @ \cup {main_part}]
        ELSE [st EXCEPT !.seen = @ \cup {main_part},
                        !.errors = Append(@, <<i, line, "invalid format">>)]

\* One iteration of the loop of validate on line number i; st is the record
\* of the loop's locals errors and seen.
validate_step(st, i, raw) ==
    LET line == strip(raw)
        main_part == strip(split1(line, "#")[1])
        key == lower(main_part)
    IN  IF line = <<>> \/ startswith(line, <<"#">>) THEN st
        ELSE IF main_part = <<>> THEN st
        ELSE IF key \in st.seen
        THEN [st EXCEPT !.errors = Append(@, <<i, line, "duplicate">>)]
        ELSE IF USERNAME_RE(main_part) \/ ID_RE(main_part)
        THEN [st EXCEPT !.seen = @ \cup {key}]
        ELSE [st EXCEPT !.seen = @ \cup {key},
                        !.errors = Append(@, <<i, line, "invalid format">>)]

RECURSIVE validate_loop(_, _)
validate_loop(lines, k) ==
    IF k = 0 THEN [errors |-> <<>>, seen |-> {}]
    ELSE validate_step(validate_loop(lines, k - 1), k, lines[k])

\* validate(lines): the list of (line number, stripped line, reason)
validate(lines) == validate_loop(lines, Len(lines)).errors

\* The outcome of main(path) of validate_blacklist.py
validate_main(file) ==
    IF ~file.exists THEN [exit |-> 2, errors |-> <<>>]
    ELSE IF validate(file.lines) # <<>> THEN [exit |-> 1, errors |-> validate(file.lines)]
    ELSE [exit |-> 0, errors |-> <<>>]

(***************************************************************************)
(* The merge tool and the validator run on one target file.                *)
(***************************************************************************)

MaxRuns == 2

MaxClock == 1

\* Contents the target file may have before the first run
Targets ==
    { NoFile,
      File(<<>>),
      File(<< <<"#", " ", "m", "y", " ", "l", "i", "s", "t">>, <<"1", "2", "3", " ", " ", "#", " ", "s", "p", "a", "m">> >>),
      File(<< <<"#", " ", "h">>, <<>>, <<"#", " ", "M", "e", "r", "g", "e", "d", " ", "o", "n", " ", "0", " ", "U", "T", "C">>, <<>>, <<"1", "0">>, <<"@", "z", "e", "t", "a", "1">>, <<"2">>, <<"@", "A", "l", "p", "h", "a">> >>),
      File(<< <<"#", " ", "t", "o", "p">>, <<"@", "U", "s", "e", "r", "x">>, <<"#", " ", "l", "a", "t", "e">>, <<"@", "u", "s", "e", "r", "x", " ", " ", "#", " ", "d", "u", "p">>, <<"0", "5">>, <<"#">>, <<"@", "F", "o", "o">>, <<"@", "f", "o", "o">> >>),
      File(<< <<"#", " ", "h", " ">>, <<"-", "-", "5">> >>),
      File(<< <<"@", "a", "b", "c", "d">>, <<"@">> \o [i \in 1..(UsernameMax + 1) |-> "a"], <<"@", "a", "b", "c", "d", "e">>, <<"A", "b", "c">>,
              <<"a", "b", "c", " ", "#", " ", "c">>, <<"-", "3">>, <<" ", "#", " ", "x">> >>),
      File(<< <<"#", " ", "M", "e", "r", "g", "e", "d", " ", "o", "n", " ", "0", " ", "U", "T", "C">>, <<"#", " ", "M", "e", "r", "g", "e", "d", " ", "o", "n", " ", "1", " ", "U", "T", "C">>, <<"5", " ", "#", " ", "a", " ", "#", " ", "b">> >>) }

\* Contents the upstream source file may have at a run
Sources ==
    { NoFile,
      File(<< <<"4", "5", "6">> >>),
      File(<< <<"1", "2", "3", " ", "#", " ", "o", "t", "h", "e", "r", " ", "r", "e", "a", "s", "o", "n">>, <<"@", "u", "s", "e", "r", "x">>, <<"5">> >>),
      File(<< <<"#", " ", "s", "r", "c", " ", "h", "e", "a", "d">>, <<"@", "a", "l", "p", "h", "a">>, <<"2", " ", " ", "#", " ", "t", "w", "o">>, <<"@", "U", "S", "E", "R", "X", " ", "#", " ", "s", "h", "o", "u", "t">> >>),
      File(<< <<"-", "-", "5">> >>) }

NoRun ==
    [ran |-> FALSE, source |-> NoFile, dry_run |-> FALSE, before |-> NoFile, t |-> 0,
     prior |-> {}, header_old |-> <<>>, entries_old |-> <<>>, entries_new |-> <<>>,
     exit |-> 0, raised |-> FALSE, built |-> FALSE, wrote |-> FALSE,
     merged |-> <<>>, new_contents |-> <<>>]

NoCheck == [ran |-> FALSE, file |-> NoFile, exit |-> 0, errors |-> <<>>]

NoCall == [raised |-> FALSE, value |-> <<>>]

Init ==
    /\ target \in Targets
    /\ now = 0
    /\ runs = 0
    /\ written = {}
    /\ last = NoRun
    /\ checked = NoCheck
    /\ m_old = <<>>
    /\ m_new = <<>>
    /\ m_pc = "idle"
    /\ m_out = NoCall

\* main() of merge_blacklist.py, one invocation: --source src (an upstream
\* file, or the target itself), --dry-run or not, at a clock reading t >= now.
\* last.exit is the process status (1: the traceback of the uncaught
\* ValueError).  last keeps the locals of main(); prior is the value of
\* written when the run started.
MergeRun(src, dry_run, t) ==
    /\ runs < MaxRuns
    /\ t <= MaxClock
    /\ runs' = runs + 1
    /\ now' = t
    /\ checked' = NoCheck
    /\ UNCHANGED <<m_old, m_new, m_pc, m_out>>
    /\ \E rt \in {read_file(target)}, rs \in {read_file(src)} :
       \E merged \in {merge_entries(rt.entries, rs.entries)} :
       \E new_contents \in {build_contents(rt.header, merged.value, t)} :
       LET start == [NoRun EXCEPT !.ran = TRUE, !.source = src, !.dry_run = dry_run,
                                  !.before = target, !.t = t, !.prior = written]
           run == [start EXCEPT !.header_old = rt.header, !.entries_old = rt.entries,
                                !.entries_new = rs.entries]
           built == [run EXCEPT !.built = TRUE, !.merged = merged.value,
                                !.new_contents = new_contents]
       IN  IF ~src.exists
           THEN /\ last' = [start EXCEPT !.exit = 2]
                /\ UNCHANGED <<target, written>>
           ELSE IF merged.raised
           THEN /\ last' = [run EXCEPT !.exit = 1, !.raised = TRUE]
                /\ UNCHANGED <<target, written>>
           ELSE IF target.exists /\ target.lines = new_contents
           THEN /\ last' = built
                /\ UNCHANGED <<target, written>>
           ELSE IF dry_run
           THEN /\ last' = built
                /\ UNCHANGED <<target, written>>
           ELSE /\ last' = [built EXCEPT !.wrote = TRUE]
                /\ target' = File(new_contents)
                /\ written' = written \cup {src}

\* One invocation of validate_blacklist.py on the target file.
ValidateRun ==
    /\ \E v \in {validate_main(target)} :
           checked' = [ran |-> TRUE, file |-> target, exit |-> v.exit, errors |-> v.errors]
    /\ last' = NoRun
    /\ UNCHANGED <<target, now, runs, written, m_old, m_new, m_pc, m_out>>

Next ==
    \/ \E src \in Sources \cup {target}, dry_run \in BOOLEAN, t \in {now, now + 1} :
           MergeRun(src, dry_run, t)
    \/ ValidateRun

Spec == Init /\ [][Next]_vars

(***************************************************************************)
(* merge_entries as a function: one call on arguments drawn from a pool.   *)
(***************************************************************************)

MaxEntries == 3

EntryPool ==
    { <<<<"5">>, <<"s", "p", "a", "m">>>>, <<<<"5">>, <<"o", "t", "h", "e", "r">>>>, <<<<"0", "5">>, <<>>>>, <<<<"1", "0">>, <<>>>>, <<<<"-", "3">>, <<>>>>,
      <<<<"@", "U", "s", "e", "r">>, <<"a">>>>, <<<<"@", "u", "s", "e", "r">>, <<>>>>, <<<<"@", "a", "l", "p", "h", "a">>, <<>>>>, <<<<"-", "-", "5">>, <<>>>> }

SeqsUpTo(S, n) == UNION {[1..k -> S] : k \in 0..n}

\* The arguments are entries as read_file yields them (trimmed, non-empty
\* values); no tool runs, so the variables of the runs keep their initial
\* values.
InitMerge ==
    /\ \E cat \in SeqsUpTo(EntryPool, MaxEntries) : \E k \in 0..Len(cat) :
           /\ m_old = SubSeq(cat, 1, k)
           /\ m_new = SubSeq(cat, k + 1, Len(cat))
    /\ m_pc = "call"
    /\ m_out = NoCall
    /\ target = NoFile
    /\ now = 0
    /\ runs = 0
    /\ written = {}
    /\ last = NoRun
    /\ checked = NoCheck

CallMerge ==
    /\ m_pc = "call"
    /\ m_out' = merge_entries(m_old, m_new)
    /\ m_pc' = "return"
    /\ UNCHANGED <<target, now, runs, written, last, checked, m_old, m_new>>

NextMerge == CallMerge

SpecMerge == InitMerge /\ [][NextMerge]_vars

(***************************************************************************)
(* Properties of merge_entries, checked under SpecMerge.                   *)
(***************************************************************************)

\* The key of a value: trimmed and lowercased when the value starts with
\* '@', trimmed only otherwise.
NormalizedKey(v) ==
    IF v # <<>> /\ v[1] = "@" THEN lower(strip(v)) ELSE strip(v)

\* The arguments of the call, concatenated
m_cat == m_old \o m_new

\* Index of the first entry of s whose key is k
FirstWithKey(s, k) ==
    CHOOSE i \in 1..Len(s) :
        /\ NormalizedKey(s[i][1]) = k
        /\ \A j \in 1..(i - 1) : NormalizedKey(s[j][1]) # k

\* C1: the sequence merge_entries returns holds no two entries with the same
\* NormalizedKey.
C1_NoDuplicateKeys ==
    (m_pc = "return" /\ ~m_out.raised) =>
        \A i, j \in 1..Len(m_out.value) :
            i # j => NormalizedKey(m_out.value[i][1]) # NormalizedKey(m_out.value[j][1])

\* A call has returned whose arguments held two different spellings of one
\* username.
C1_Witness ==
    /\ m_pc = "return"
    /\ ~m_out.raised
    /\ \E i, j \in 1..Len(m_cat) :
           /\ m_cat[i][1] # m_cat[j][1]
           /\ NormalizedKey(m_cat[i][1]) = NormalizedKey(m_cat[j][1])

\* C2: merge_entries returns, for every key k that occurs in old ++ new,
\* exactly one entry with key k, and it is the first entry of old ++ new with
\* that key: its value normalized, its comment unchanged.
C2_FirstOccurrenceWins ==
    m_pc = "return" =>
        /\ ~m_out.raised
        /\ \A i \in 1..Len(m_cat) :
               LET k == NormalizedKey(m_cat[i][1])
                   first == m_cat[FirstWithKey(m_cat, k)]
                   hits == {j \in 1..Len(m_out.value) :
                                NormalizedKey(m_out.value[j][1]) = k}
               IN  /\ Cardinality(hits) = 1
                   /\ \A j \in hits : m_out.value[j] = <<k, first[2]>>

\* The same statement for the calls that return a list: it holds, so C2
\* fails only where merge_entries raises.
C2_FirstOccurrenceWinsIfReturned ==
    (m_pc = "return" /\ ~m_out.raised) =>
        \A i \in 1..Len(m_cat) :
            LET k == NormalizedKey(m_cat[i][1])
                first == m_cat[FirstWithKey(m_cat, k)]
                hits == {j \in 1..Len(m_out.value) :
                             NormalizedKey(m_out.value[j][1]) = k}
            IN  /\ Cardinality(hits) = 1
                /\ \A j \in hits : m_out.value[j] = <<k, first[2]>>

\* A value is numeric when, one leading '-' removed, it is all digits.
IsNumeric(v) == isdigit(IF v # <<>> /\ v[1] = "-" THEN Tail(v) ELSE v)

\* The integer a numeric value denotes
IntegerValue(v) ==
    IF v[1] = "-" THEN 0 - digits_value(Tail(v)) ELSE digits_value(v)

\* s is ordered: numeric values first, ascending as integers, then the other
\* values, ascending in their lowercased text.
NumericFirstOrder(s) ==
    \A i, j \in 1..Len(s) :
        i < j =>
            /\ IsNumeric(s[j][1]) => IsNumeric(s[i][1])
            /\ (IsNumeric(s[i][1]) /\ IsNumeric(s[j][1])) =>
                   IntegerValue(s[i][1]) <= IntegerValue(s[j][1])
            /\ (~IsNumeric(s[i][1]) /\ ~IsNumeric(s[j][1])) =>
                   ~str_lt(lower(s[j][1]), lower(s[i][1]))

\* C3: for entries with non-empty values merge_entries returns a sequence in
\* which the numeric entries come first in ascending integer order and the
\* other entries follow in ascending order of their lowercased value.
C3_NumericFirstOrdering ==
    m_pc = "return" => (~m_out.raised /\ NumericFirstOrder(m_out.value))

\* The ordering holds of every list that is returned, so C3 fails only where
\* merge_entries raises.
C3_OrderingIfReturned ==
    (m_pc = "return" /\ ~m_out.raised) => NumericFirstOrder(m_out.value)

\* The sequences with the same entries as s, in every order
Reorderings(s) ==
    {[i \in 1..Len(s) |-> s[f[i]]] : f \in Permutations(1..Len(s))}

\* The outcome of the call on the reordering p, split where the call's
\* arguments are split
MergeOf(p) ==
    merge_entries(SubSeq(p, 1, Len(m_old)), SubSeq(p, Len(m_old) + 1, Len(p)))

\* C4 as stated: every reordering of old ++ new gives the identical output.
C4_OrderIndependent ==
    m_pc = "return" => \A p \in Reorderings(m_cat) : MergeOf(p) = m_out

\* Entries of s that share a sort key are the same entry once normalized.
NoSortTies(s) ==
    \A i, j \in 1..Len(s) :
        LET a == <<normalize_entry(s[i][1]), s[i][2]>>
            b == <<normalize_entry(s[j][1]), s[j][2]>>
        IN  sort_key(a) = sort_key(b) => a = b

\* C4 (amended): when the entries that share a sort key are identical after
\* normalization (value and comment), every reordering of old ++ new gives
\* the identical outcome: the same sequence, or the same ValueError.
C4_OrderIndependentWithoutTies ==
    (m_pc = "return" /\ NoSortTies(m_cat)) =>
        \A p \in Reorderings(m_cat) : MergeOf(p) = m_out

\* A call without ties has returned a list that is not in the order of its
\* arguments.
C4_Witness ==
    /\ m_pc = "return"
    /\ NoSortTies(m_cat)
    /\ ~m_out.raised
    /\ Len(m_out.value) = MaxEntries
    /\ m_out.value # m_cat

(***************************************************************************)
(* Properties of the tool runs, checked under Spec.                        *)
(***************************************************************************)

\* A line is blank or '#'-prefixed once its trailing whitespace is removed.
IsHeaderLine(raw) == rstrip(raw) = <<>> \/ rstrip(raw)[1] = "#"

\* Number of leading lines that are blank or '#'-prefixed
HeaderLength(lines) ==
    CHOOSE n \in 0..Len(lines) :
        /\ \A i \in 1..n : IsHeaderLine(lines[i])
        /\ n < Len(lines) => ~IsHeaderLine(lines[n + 1])

\* The header of a file as read back: its leading blank or '#'-prefixed
\* lines, without trailing whitespace
HeaderOf(file) ==
    [i \in 1..HeaderLength(file.lines) |-> rstrip(file.lines[i])]

IsMarker(line) == startswith(line, <<"#", " ", "M", "e", "r", "g", "e", "d", " ", "o", "n", " ">>)

NonMarkers(header) == SelectSeq(header, LAMBDA h : ~IsMarker(h))

\* C5: the header lines other than the freshness marker, read back from the
\* target after a run, are the ones read from the target before the run.
C5_HeaderPreserved ==
    last.ran => NonMarkers(HeaderOf(target)) = NonMarkers(HeaderOf(last.before))

\* What the runs do keep: the header lines that are neither blank nor the
\* marker.
C5_NonBlankHeaderPreserved ==
    last.ran =>
        SelectSeq(NonMarkers(HeaderOf(target)), LAMBDA h : h # <<>>)
            = SelectSeq(NonMarkers(HeaderOf(last.before)), LAMBDA h : h # <<>>)

\* C6: once a run has written the target, the target holds exactly one line
\* that starts with the marker prefix, and it is the last non-blank line of
\* the header.
C6_SingleMarker ==
    written # {} =>
        /\ Cardinality({i \in 1..Len(target.lines) : IsMarker(target.lines[i])}) = 1
        /\ \E i \in 1..HeaderLength(target.lines) :
               /\ IsMarker(target.lines[i])
               /\ \A j \in (i + 1)..HeaderLength(target.lines) :
                      rstrip(target.lines[j]) = <<>>

\* A run has written over a target that already held markers, one of them
\* written by an earlier run.
C6_Witness ==
    /\ last.wrote
    /\ last.prior # {}
    /\ \E i \in 1..Len(last.before.lines) :
           /\ IsMarker(last.before.lines[i])
           /\ last.before.lines[i] # MARKER \o strftime(last.t)

RECURSIVE Concat(_)
Concat(ss) == IF ss = <<>> THEN <<>> ELSE Head(ss) \o Concat(Tail(ss))

\* What a line after the header contributes: nothing when the trimmed text
\* before its first '#' is empty, else the one entry <<value, comment>> of
\* that text and the rest of the line, both trimmed.
LineEntries(l) ==
    LET cut == IF \E i \in 1..Len(l) : l[i] = "#"
               THEN CHOOSE i \in 1..Len(l) : l[i] = "#" /\ \A j \in 1..(i - 1) : l[j] # "#"
               ELSE Len(l) + 1
        value == strip(SubSeq(l, 1, cut - 1))
        comment == strip(SubSeq(l, cut + 1, Len(l)))
    IN  IF value = <<>> THEN <<>> ELSE << <<value, comment>> >>

\* The entries of a file: those of its lines after the header, in file order
EntriesOf(file) ==
    Concat([i \in 1..(Len(file.lines) - HeaderLength(file.lines)) |->
                LineEntries(file.lines[HeaderLength(file.lines) + i])])

\* C7: after a run has written the target, a run whose source is that of an
\* earlier writing run, or the target itself, leaves the entry sequence of
\* the target as it was; and the entries read back from a written target are
\* the merged entries.
C7_RerunKeepsEntries ==
    /\ (last.ran /\ last.prior # {} /\ (last.source \in last.prior \/ last.source = last.before))
           => EntriesOf(target) = EntriesOf(last.before)
    /\ last.wrote => EntriesOf(target) = last.merged

\* A second writing run with the source of the first, on a target whose
\* entries carry comments.
C7_Witness ==
    /\ last.wrote
    /\ last.source \in last.prior
    /\ \E i \in 1..Len(last.merged) : last.merged[i][2] # <<>>
    /\ Len(last.merged) >= 3

\* '@' followed by 5 to 32 characters of [A-Za-z0-9_]
UsernameGrammar(s) ==
    /\ Len(s) >= 6
    /\ Len(s) <= 33
    /\ s[1] = "@"
    /\ \A i \in 2..Len(s) : s[i] \in UpperCase \cup LowerCase \cup Digits \cup {"_"}

\* An optional '-' followed by one or more digits
IntegerGrammar(s) ==
    \/ Len(s) >= 1 /\ \A i \in 1..Len(s) : s[i] \in Digits
    \/ Len(s) >= 2 /\ s[1] = "-" /\ \A i \in 2..Len(s) : s[i] \in Digits

\* The part of a line before its first '#', trimmed
MainPart(raw) ==
    LET l == strip(raw)
    IN  IF \E i \in 1..Len(l) : l[i] = "#"
        THEN strip(SubSeq(l, 1, (CHOOSE i \in 1..Len(l) :
                                     l[i] = "#" /\ \A j \in 1..(i - 1) : l[j] # "#") - 1))
        ELSE l

\* A line the validator classifies: not blank, not '#'-prefixed, with a
\* non-empty main part
IsClassified(raw) ==
    /\ strip(raw) # <<>>
    /\ strip(raw)[1] # "#"
    /\ MainPart(raw) # <<>>

\* The violation C8 gives line i of lines, "none" when it gives none
Verdict(lines, i) ==
    IF ~IsClassified(lines[i]) THEN "none"
    ELSE IF \E j \in 1..(i - 1) :
                /\ IsClassified(lines[j])
                /\ lower(MainPart(lines[j])) = lower(MainPart(lines[i]))
    THEN "duplicate"
    ELSE IF ~UsernameGrammar(MainPart(lines[i])) /\ ~IntegerGrammar(MainPart(lines[i]))
    THEN "invalid format"
    ELSE "none"

\* C8: validate reports its violations in ascending line order, at most one
\* for a line, and the violation of line i is "duplicate" when the lowercased
\* main part occurred in an earlier classified line, else "invalid format"
\* when the main part matches neither grammar, else none.
C8_ValidatorVerdicts ==
    (checked.ran /\ checked.file.exists) =>
        LET lines == checked.file.lines
            errs == checked.errors
        IN  /\ \A a, b \in 1..Len(errs) : a < b => errs[a][1] < errs[b][1]
            /\ \A a \in 1..Len(errs) :
                   /\ errs[a][1] \in 1..Len(lines)
                   /\ errs[a][2] = strip(lines[errs[a][1]])
                   /\ errs[a][3] = Verdict(lines, errs[a][1])
            /\ \A i \in 1..Len(lines) :
                   Verdict(lines, i) # "none" => \E a \in 1..Len(errs) : errs[a][1] = i

\* The validator has run on a file with a five-character username that it
\* accepts, too short and too long ones that it rejects, and a duplicate of
\* an ill-formed line in another case.
C8_Witness ==
    /\ checked.ran
    /\ \E a, b \in 1..Len(checked.errors) :
           /\ checked.errors[a][3] = "duplicate"
           /\ checked.errors[b][3] = "invalid format"
           /\ Len(checked.errors[b][2]) = 34
    /\ \E i \in 1..Len(checked.file.lines) :
           /\ checked.file.lines[i] = <<"@", "a", "b", "c", "d", "e">>
           /\ \A a \in 1..Len(checked.errors) : checked.errors[a][1] # i
    /\ \E b \in 1..Len(checked.errors) : checked.errors[b][2] = <<"@", "a", "b", "c", "d">>

\* C9: in read_file header mode starts true and, once ended, stays ended and
\* adds nothing to the header; a line read when header mode is over (the
\* line that ends it included) yields no entry when the trimmed text before
\* its first '#' is empty and one entry <<value, comment>> otherwise; so the
\* header is the maximal prefix of blank or '#'-prefixed lines and the
\* entries are in file order.
C9_HeaderModeEndsOnce ==
    last.ran =>
        LET lines == last.before.lines
        IN  /\ ~read_loop(lines, 0).header_done
            /\ \A k \in 0..(Len(lines) - 1) :
                   LET st == read_loop(lines, k)
                       nx == read_loop(lines, k + 1)
                   IN  /\ st.header_done =>
                               (nx.header_done /\ nx.header = st.header)
                       /\ ~nx.header_done =>
                               (nx.entries = <<>> /\ Len(nx.header) = k + 1)
                       /\ nx.header_done =>
                               nx.entries = st.entries \o LineEntries(lines[k + 1])
            /\ last.exit # 2 =>
                   /\ last.header_old = HeaderOf(last.before)
                   /\ last.entries_old = EntriesOf(last.before)

\* A run has read a target in which, after the header ended, a '#'-prefixed
\* line and a blank line follow and a later line carries an entry.
C9_Witness ==
    /\ last.ran
    /\ last.exit # 2
    /\ \E i, j \in 1..Len(last.before.lines) :
           /\ HeaderLength(last.before.lines) < i
           /\ i < j
           /\ IsHeaderLine(last.before.lines[i])
           /\ MainPart(last.before.lines[j]) # <<>>
    /\ Len(last.header_old) >= 1

\* Every value of the entries satisfies one of the two grammars.
AllWellFormed(entries) ==
    \A i \in 1..Len(entries) :
        UsernameGrammar(entries[i][1]) \/ IntegerGrammar(entries[i][1])

\* C10: when every entry value of the target and of the source is a
\* username or an integer, validate finds nothing wrong with the text the
\* merge run builds.
C10_MergedFileValidates ==
    (last.ran /\ last.exit # 2 /\ AllWellFormed(last.entries_old)
              /\ AllWellFormed(last.entries_new)) =>
        /\ last.built
        /\ validate(last.new_contents) = <<>>

\* A run has merged well-formed files that spell one username in two cases.
C10_Witness ==
    /\ last.built
    /\ AllWellFormed(last.entries_old)
    /\ AllWellFormed(last.entries_new)
    /\ \E i \in 1..Len(last.entries_old), j \in 1..Len(last.entries_new) :
           /\ last.entries_old[i][1] # last.entries_new[j][1]
           /\ lower(last.entries_old[i][1]) = lower(last.entries_new[j][1])
    /\ Len(last.header_old) >= 1

=============================================================================
